---- MODULE Spec2Model ----
(***************************************************************************)
(* RoutingService (src/electron/routing.ts): the client of the Outline     *)
(* routing daemon.  One instance, its transports (net.Socket objects), the *)
(* start()/stop() calls made on it and the messages the service has sent   *)
(* that the client has not read yet.                                       *)
(*                                                                         *)
(* Scheduling is Node's: an I/O event (connect, error, data, close) is a   *)
(* macrotask and runs only when no promise continuation is queued; the     *)
(* continuation of an `await this.getSocket()` is a microtask.  A caller   *)
(* may issue start()/stop() at any point, also between two continuations.  *)
(*                                                                         *)
(* SingletonProcess, SsLocal, Tun2socks (src/electron/processes.ts): the   *)
(* supervisors of the two child processes, their children and the events   *)
(* the children emit.  Spec runs the RoutingService, ProcSpec the          *)
(* supervisors; the two do not touch each other's state.                   *)
(***************************************************************************)
EXTENDS Naturals, Sequences, FiniteSets, TLC

\* ----------------------------------------------------------------- bounds
MaxCalls == 3      \* start()/stop() calls made on the instance
MaxSockets == 2    \* transports createConnection() may create
MaxInFlight == 1   \* service messages sent and not yet read, over all transports

\* ------------------------------------------------------ program constants
SUCCESS == 0
GENERIC_FAILURE == 1
UNSUPPORTED_ROUTING_TABLE == 2

CONFIGURE_ROUTING == "configureRouting"
RESET_ROUTING == "resetRouting"
STATUS_CHANGED == "statusChanged"

RoutingServiceAction == {CONFIGURE_ROUTING, RESET_ROUTING, STATUS_CHANGED}
RoutingServiceStatusCode == {SUCCESS, GENERIC_FAILURE, UNSUPPORTED_ROUTING_TABLE}

\* errorMessage is optional: "none" is the absent field.
ErrorMessages == {"e1", "e2"}
ProxyAddresses == {"127.0.0.1"}

\* What the service may send: a configureRouting response (a failure carries
\* a message), a resetRouting response of any status, a statusChanged event.
RoutingServiceResponse ==
     {[action |-> CONFIGURE_ROUTING, statusCode |-> SUCCESS, errorMessage |-> "none"]}
  \cup [action : {CONFIGURE_ROUTING},
        statusCode : {GENERIC_FAILURE, UNSUPPORTED_ROUTING_TABLE},
        errorMessage : ErrorMessages]
  \cup [action : {RESET_ROUTING}, statusCode : RoutingServiceStatusCode,
        errorMessage : {"none"}]
  \cup {[action |-> STATUS_CHANGED, statusCode |-> SUCCESS, errorMessage |-> "none"]}

\* ------------------------------------------------------------------ state
VARIABLES
  socket,                 \* this.socket: a transport's index, or None
  disconnectionListener,  \* whether this.disconnectionListener is set
  fulfillStart,           \* the call whose promise this.fulfillStart resolves, or None
  rejectStart,            \* the call whose promise this.rejectStart rejects, or None
  fulfillStop,            \* the call whose promise this.fulfillStop resolves, or None
  sockets,                \* every transport created so far, in creation order
  calls                   \* every start()/stop() call made so far, in call order

rvars == <<socket, disconnectionListener, fulfillStart, rejectStart, fulfillStop,
           sockets, calls>>

None == 0

\* ---- src/electron/processes.ts: one SsLocal and one Tun2socks instance
\* The two supervisors.
Supervisors == {"SsLocal", "Tun2socks"}

\* Inputs.  An optional string field of a ServerConfig is <<>> when it is
\* missing and <<text>> when it is present.
LocalPorts == {1081, 9}
SocksAddresses == {"127.0.0.1"}
Hosts == {<<>>, <<"">>, <<"203.0.113.5">>}
ServerPorts == {65336}
Passwords == {<<>>, <<"pw">>}
Methods == {<<>>, <<"aes-128-cfb">>}
ServerConfig == [host : Hosts, port : ServerPorts, password : Passwords, method : Methods]

VARIABLES
  isLinux,        \* platform() === 'linux', evaluated when the module loads
  tun2socksProxyAddress,  \* this.proxyAddress of the Tun2socks instance
  proxyPort,      \* proxyPort of each supervisor
  process,        \* this.process of each supervisor: a child's index, or None
  exitListener,   \* whether this.exitListener of each supervisor is set
  children        \* every ChildProcess spawned so far, in spawn order

pvars == <<isLinux, tun2socksProxyAddress, proxyPort, process, exitListener, children>>

vars == <<rvars, pvars>>

\* The supervisors after `new SsLocal(p1)` and `new Tun2socks(a, p2)`, the
\* module loaded on platform l.
SupervisorsNew(l, a, p1, p2) ==
  /\ isLinux = l
  /\ tun2socksProxyAddress = a
  /\ proxyPort = [i \in Supervisors |-> IF i = "SsLocal" THEN p1 ELSE p2]
  /\ process = [i \in Supervisors |-> None]
  /\ exitListener = [i \in Supervisors |-> FALSE]
  /\ children = <<>>

NoError == [kind |-> "none", msg |-> "none"]

\* A transport as createConnection() returns it: connecting, nothing written,
\* nothing received, end() not called, the disconnection listener not invoked.
newSocket ==
  [state |-> "connecting", ended |-> FALSE, errored |-> FALSE,
   written |-> <<>>, inbox |-> <<>>, disconnects |-> 0]

\* A promise settles once: a later fulfil or reject of it is ignored.
settle(cs, c, pc, err) ==
  IF cs[c].pc = "pending" THEN [cs EXCEPT ![c].pc = pc, ![c].err = err] ELSE cs

\* newSocket.end()
end(socks, s) == [socks EXCEPT ![s].ended = TRUE]

\* The number of service messages sent and not yet read.
RECURSIVE InFlight(_, _)
InFlight(socks, n) ==
  IF n = 0 THEN 0 ELSE Len(socks[n].inbox) + InFlight(socks, n - 1)

\* No continuation of an awaiting call is queued.
MicrotasksDrained == \A c \in DOMAIN calls : calls[c].pc # "ready"

\* The RoutingService after `new RoutingService()`.
RoutingServiceNew ==
  /\ socket = None
  /\ disconnectionListener = FALSE
  /\ fulfillStart = None
  /\ rejectStart = None
  /\ fulfillStop = None
  /\ sockets = <<>>
  /\ calls = <<>>

\* The RoutingService at work: the supervisors are constructed and left alone.
Init ==
  /\ RoutingServiceNew
  /\ SupervisorsNew(TRUE, "127.0.0.1", 1081, 1081)

\* The supervisors at work: the RoutingService is constructed and left alone.
ProcInit ==
  /\ RoutingServiceNew
  /\ \E l \in BOOLEAN : \E a \in SocksAddresses :
       \E p1 \in LocalPorts : \E p2 \in LocalPorts : SupervisorsNew(l, a, p1, p2)

\* ------------------------------------------------------------- getSocket
\* Mutant of getSocket: the stored socket is never reused.
getSocketAlwaysNew(call) ==
  /\ Len(sockets) < MaxSockets
  /\ sockets' = Append(sockets, newSocket)
  /\ calls' = Append(calls,
                 [call EXCEPT !.pc = "connecting", !.sock = Len(sockets) + 1])

\* The synchronous part of getSocket() for a new call record `call`: with a
\* stored socket the call gets it and its continuation is queued; without
\* one a transport is created and the call waits for its connect or error.
getSocket(call) ==
  IF socket # None
    THEN /\ calls' = Append(calls, [call EXCEPT !.pc = "ready", !.sock = socket])
         /\ sockets' = sockets
    ELSE /\ Len(sockets) < MaxSockets
         /\ sockets' = Append(sockets, newSocket)
         /\ calls' = Append(calls,
                        [call EXCEPT !.pc = "connecting", !.sock = Len(sockets) + 1])

\* Mutant of ConfigureError: the two error kinds exchanged.
ConfigureErrorSwapped(m) ==
  [kind |-> IF m.statusCode = UNSUPPORTED_ROUTING_TABLE
              THEN "ConfigureSystemProxyFailure"
              ELSE "UnsupportedRoutingTable",
   msg |-> m.errorMessage]

\* The error a rejecting configureRouting response is turned into.
ConfigureError(m) ==
  [kind |-> IF m.statusCode = UNSUPPORTED_ROUTING_TABLE
              THEN "UnsupportedRoutingTable"
              ELSE "ConfigureSystemProxyFailure",
   msg |-> m.errorMessage]

\* Mutant of onConfigureRouting: end() is called after a success response too.
onConfigureRoutingAlwaysEnds(s, m) ==
  IF ~(fulfillStart # None /\ rejectStart # None)
    THEN [calls |-> calls, sockets |-> end(sockets, s)]
    ELSE IF m.statusCode = SUCCESS
      THEN [calls |-> settle(calls, fulfillStart, "resolved", NoError),
            sockets |-> end(sockets, s)]
      ELSE [calls |-> settle(calls, rejectStart, "rejected", ConfigureError(m)),
            sockets |-> end(sockets, s)]

\* case CONFIGURE_ROUTING of the data handler of transport s.
onConfigureRouting(s, m) ==
  IF ~(fulfillStart # None /\ rejectStart # None)
    THEN [calls |-> calls, sockets |-> end(sockets, s)]
    ELSE IF m.statusCode = SUCCESS
      THEN [calls |-> settle(calls, fulfillStart, "resolved", NoError),
            sockets |-> sockets]
      ELSE [calls |-> settle(calls, rejectStart, "rejected", ConfigureError(m)),
            sockets |-> end(sockets, s)]

\* Mutant of onResetRouting: end() is called on a success status only.
onResetRoutingEndsOnSuccess(s, m) ==
  [calls |-> IF fulfillStop # None
               THEN settle(calls, fulfillStop, "resolved", NoError)
               ELSE calls,
   sockets |-> IF m.statusCode = SUCCESS THEN end(sockets, s) ELSE sockets]

\* case RESET_ROUTING of the data handler of transport s.
onResetRouting(s, m) ==
  [calls |-> IF fulfillStop # None
               THEN settle(calls, fulfillStop, "resolved", NoError)
               ELSE calls,
   sockets |-> end(sockets, s)]

\* Mutant of onOtherAction: the message is treated as a protocol error and
\* the transport ended.
onOtherActionEnds(s, m) == [calls |-> calls, sockets |-> end(sockets, s)]

\* Mutant of onOtherAction: the message is treated as a protocol violation
\* that fails the pending Configure.
onOtherActionRejects(s, m) ==
  [calls |-> IF rejectStart # None
               THEN settle(calls, rejectStart, "rejected",
                           [kind |-> "ProtocolViolation", msg |-> "none"])
               ELSE calls,
   sockets |-> sockets]

\* default case of the data handler: the message is logged.
onOtherAction(s, m) == [calls |-> calls, sockets |-> sockets]

\* The data handler of transport s on message m.
onData(s, m) ==
  CASE m.action = CONFIGURE_ROUTING -> onConfigureRouting(s, m)
    [] m.action = RESET_ROUTING -> onResetRouting(s, m)
    [] OTHER -> onOtherAction(s, m)

\* Mutant of onError: the error handler invokes the disconnection listener too.
onErrorNotifies(socks, s) ==
  [socks EXCEPT ![s].errored = TRUE,
                ![s].disconnects = IF disconnectionListener THEN @ + 1 ELSE @]

\* The once('error') handler on an established transport: R() of a promise
\* that the connect callback has already resolved, which changes nothing.
onError(socks, s) == [socks EXCEPT ![s].errored = TRUE]

\* The once('close') handler: the listeners are removed, and the
\* disconnection listener, when set, is invoked.
onClose(socks, s) ==
  [socks EXCEPT ![s].state = "closed", ![s].inbox = <<>>,
                ![s].disconnects = IF disconnectionListener THEN @ + 1 ELSE @]

\* The request a call writes once it has its socket.
Request(call) ==
  IF call.op = "start"
    THEN [action |-> CONFIGURE_ROUTING, proxyIp |-> call.arg]
    ELSE [action |-> RESET_ROUTING, proxyIp |-> "none"]

\* ---------------------------------------------------------------- actions
\* setDisconnectionListener(newListener): a listener, or undefined.
SetDisconnectionListener(b) ==
  /\ disconnectionListener # b
  /\ disconnectionListener' = b
  /\ UNCHANGED <<socket, fulfillStart, rejectStart, fulfillStop, sockets, calls>>
  /\ UNCHANGED pvars

\* Mutant of Start: the 'already connected' check is left out.
StartUnguarded(proxyAddress) ==
  /\ Len(calls) < MaxCalls
  /\ getSocket([op |-> "start", arg |-> proxyAddress, pc |-> "new",
                sock |-> None, err |-> NoError])
  /\ UNCHANGED <<socket, disconnectionListener, fulfillStart, rejectStart, fulfillStop>>
  /\ UNCHANGED pvars

\* start(proxyAddress), up to its await.
Start(proxyAddress) ==
  /\ Len(calls) < MaxCalls
  /\ LET call == [op |-> "start", arg |-> proxyAddress, pc |-> "new",
                  sock |-> None, err |-> NoError]
     IN IF socket # None
          THEN /\ calls' = Append(calls,
                     [call EXCEPT !.pc = "rejected",
                                  !.err = [kind |-> "AlreadyConnected", msg |-> "none"]])
               /\ sockets' = sockets
          ELSE getSocket(call)
  /\ UNCHANGED <<socket, disconnectionListener, fulfillStart, rejectStart, fulfillStop>>
  /\ UNCHANGED pvars

\* stop(), up to its await.
Stop ==
  /\ Len(calls) < MaxCalls
  /\ getSocket([op |-> "stop", arg |-> "none", pc |-> "new",
                sock |-> None, err |-> NoError])
  /\ UNCHANGED <<socket, disconnectionListener, fulfillStart, rejectStart, fulfillStop>>
  /\ UNCHANGED pvars

\* The connect callback of transport s: handlers registered, the socket
\* stored, the acquisition resolved.
Connect(s) ==
  /\ MicrotasksDrained
  /\ sockets[s].state = "connecting"
  /\ sockets' = [sockets EXCEPT ![s].state = "open"]
  /\ socket' = s
  /\ calls' = [c \in DOMAIN calls |->
                 IF calls[c].pc = "connecting" /\ calls[c].sock = s
                   THEN [calls[c] EXCEPT !.pc = "ready"]
                   ELSE calls[c]]
  /\ UNCHANGED <<disconnectionListener, fulfillStart, rejectStart, fulfillStop>>
  /\ UNCHANGED pvars

\* Mutant of ConnectError: the transport was stored when it was created, and
\* a failure to connect leaves it stored.
ConnectErrorStoresSocket(s) ==
  /\ MicrotasksDrained
  /\ sockets[s].state = "connecting"
  /\ sockets' = [sockets EXCEPT ![s].state = "failed"]
  /\ socket' = s
  /\ calls' = [c \in DOMAIN calls |->
                 IF calls[c].pc = "connecting" /\ calls[c].sock = s
                   THEN [calls[c] EXCEPT !.pc = "rejected",
                           !.err = [kind |-> "SystemConfigurationException",
                                    msg |-> "none"]]
                   ELSE calls[c]]
  /\ UNCHANGED <<disconnectionListener, fulfillStart, rejectStart, fulfillStop>>
  /\ UNCHANGED pvars

\* The once('error') handler of a transport that fails to connect: the
\* acquisition, and with it the awaiting call, is rejected.
ConnectError(s) ==
  /\ MicrotasksDrained
  /\ sockets[s].state = "connecting"
  /\ sockets' = [sockets EXCEPT ![s].state = "failed"]
  /\ calls' = [c \in DOMAIN calls |->
                 IF calls[c].pc = "connecting" /\ calls[c].sock = s
                   THEN [calls[c] EXCEPT !.pc = "rejected",
                           !.err = [kind |-> "SystemConfigurationException",
                                    msg |-> "none"]]
                   ELSE calls[c]]
  /\ UNCHANGED <<socket, disconnectionListener, fulfillStart, rejectStart, fulfillStop>>
  /\ UNCHANGED pvars

\* The rest of start() or stop() after its await: the request is written and
\* the returned promise's callbacks are stored.
Resume(c) ==
  /\ calls[c].pc = "ready"
  /\ sockets' = [sockets EXCEPT ![calls[c].sock].written = Append(@, Request(calls[c]))]
  /\ calls' = [calls EXCEPT ![c].pc = "pending"]
  /\ IF calls[c].op = "start"
       THEN /\ fulfillStart' = c
            /\ rejectStart' = c
            /\ fulfillStop' = fulfillStop
       ELSE /\ fulfillStop' = c
            /\ UNCHANGED <<fulfillStart, rejectStart>>
  /\ UNCHANGED <<socket, disconnectionListener>>
  /\ UNCHANGED pvars

\* The service sends message m on transport s.
ServiceSend(s, m) ==
  /\ sockets[s].state = "open"
  /\ InFlight(sockets, Len(sockets)) < MaxInFlight
  /\ sockets' = [sockets EXCEPT ![s].inbox = Append(@, m)]
  /\ UNCHANGED <<socket, disconnectionListener, fulfillStart, rejectStart,
                 fulfillStop, calls>>
  /\ UNCHANGED pvars

\* A 'data' event of transport s: the data handler on the oldest unread message.
Data(s) ==
  /\ MicrotasksDrained
  /\ sockets[s].state = "open"
  /\ sockets[s].inbox # <<>>
  /\ LET r == onData(s, Head(sockets[s].inbox))
     IN /\ calls' = r.calls
        /\ sockets' = [r.sockets EXCEPT ![s].inbox = Tail(@)]
  /\ UNCHANGED <<socket, disconnectionListener, fulfillStart, rejectStart, fulfillStop>>
  /\ UNCHANGED pvars

\* A 'close' event of transport s, after the client's end() or the service's.
Close(s) ==
  /\ MicrotasksDrained
  /\ sockets[s].state = "open"
  /\ sockets' = onClose(sockets, s)
  /\ socket' = None
  /\ UNCHANGED <<disconnectionListener, fulfillStart, rejectStart, fulfillStop, calls>>
  /\ UNCHANGED pvars

\* A transport-level error on the established transport s: its 'error' event
\* and then its 'close' event.
TransportError(s) ==
  /\ MicrotasksDrained
  /\ sockets[s].state = "open"
  /\ sockets' = onClose(onError(sockets, s), s)
  /\ socket' = None
  /\ UNCHANGED <<disconnectionListener, fulfillStart, rejectStart, fulfillStop, calls>>
  /\ UNCHANGED pvars

Next ==
  \/ \E b \in BOOLEAN : SetDisconnectionListener(b)
  \/ \E a \in ProxyAddresses : Start(a)
  \/ Stop
  \/ \E s \in DOMAIN sockets : Connect(s)
  \/ \E s \in DOMAIN sockets : ConnectError(s)
  \/ \E c \in DOMAIN calls : Resume(c)
  \/ \E s \in DOMAIN sockets : \E m \in RoutingServiceResponse : ServiceSend(s, m)
  \/ \E s \in DOMAIN sockets : Data(s)
  \/ \E s \in DOMAIN sockets : Close(s)
  \/ \E s \in DOMAIN sockets : TransportError(s)

\* =========================================================================
\* SingletonProcess, SsLocal, Tun2socks (src/electron/processes.ts): the
\* supervisors of the two child processes.  One SsLocal and one Tun2socks
\* instance, and every ChildProcess spawn() has returned so far.
\* =========================================================================

\* ------------------------------------------------------------------ bound
MaxSpawns == 2     \* child processes spawned, over both supervisors

\* ------------------------------------------------------ program constants
TUN2SOCKS_TAP_DEVICE_IP == "10.0.85.2"
TUN2SOCKS_VIRTUAL_ROUTER_IP == "10.0.85.1"
TUN2SOCKS_TAP_DEVICE_NETWORK == "10.0.85.0"
TUN2SOCKS_VIRTUAL_ROUTER_NETMASK == "255.255.255.0"

TUN2SOCKS_TAP_DEVICE_NAME == IF isLinux THEN "outline-tun0" ELSE "outline-tap0"

\* ------------------------------------------------------------ conversions
Digit == <<"0", "1", "2", "3", "4", "5", "6", "7", "8", "9">>

\* Mutant of toString: only the last digit.
toStringLastDigit(n) == Digit[(n % 10) + 1]

\* Number.prototype.toString() and `'' + n` of a non-negative integer: its
\* decimal digits, most significant first.
RECURSIVE toString(_)
toString(n) ==
  IF n < 10 THEN Digit[n + 1] ELSE toString(n \div 10) \o Digit[(n % 10) + 1]

\* `x || ''` of an optional string: a missing and an empty x are both falsy.
OrEmpty(x) == IF x = <<>> THEN "" ELSE IF x[1] = "" THEN "" ELSE x[1]

\* ------------------------------------------------------ SsLocal arguments
SsLocalArgs(config) ==
  <<"-l", toString(proxyPort["SsLocal"])>>
    \o <<"-s", OrEmpty(config.host)>>
    \o <<"-p", "" \o toString(config.port)>>
    \o <<"-k", OrEmpty(config.password)>>
    \o <<"-m", OrEmpty(config.method)>>
    \o <<"-t", "5">>
    \o <<"-u">>

\* ---------------------------------------------------- Tun2socks arguments
\* Mutant of Tun2socksArgs: the UDP relay is pointed at the TAP device.
Tun2socksArgsRelayElsewhere ==
  <<"--tundev",
    IF isLinux
      THEN TUN2SOCKS_TAP_DEVICE_NAME
      ELSE "tap0901:" \o TUN2SOCKS_TAP_DEVICE_NAME \o ":" \o TUN2SOCKS_TAP_DEVICE_IP \o ":"
             \o TUN2SOCKS_TAP_DEVICE_NETWORK \o ":" \o TUN2SOCKS_VIRTUAL_ROUTER_NETMASK>>
    \o <<"--netif-ipaddr", TUN2SOCKS_VIRTUAL_ROUTER_IP>>
    \o <<"--netif-netmask", TUN2SOCKS_VIRTUAL_ROUTER_NETMASK>>
    \o <<"--socks-server-addr", tun2socksProxyAddress \o ":" \o toString(proxyPort["Tun2socks"])>>
    \o <<"--loglevel", "error">>
    \o <<"--transparent-dns">>
    \o <<"--socks5-udp">>
    \o <<"--udp-relay-addr",
         TUN2SOCKS_TAP_DEVICE_IP \o ":" \o toString(proxyPort["Tun2socks"])>>

Tun2socksArgs ==
  <<"--tundev",
    IF isLinux
      THEN TUN2SOCKS_TAP_DEVICE_NAME
      ELSE "tap0901:" \o TUN2SOCKS_TAP_DEVICE_NAME \o ":" \o TUN2SOCKS_TAP_DEVICE_IP \o ":"
             \o TUN2SOCKS_TAP_DEVICE_NETWORK \o ":" \o TUN2SOCKS_VIRTUAL_ROUTER_NETMASK>>
    \o <<"--netif-ipaddr", TUN2SOCKS_VIRTUAL_ROUTER_IP>>
    \o <<"--netif-netmask", TUN2SOCKS_VIRTUAL_ROUTER_NETMASK>>
    \o <<"--socks-server-addr", tun2socksProxyAddress \o ":" \o toString(proxyPort["Tun2socks"])>>
    \o <<"--loglevel", "error">>
    \o <<"--transparent-dns">>
    \o <<"--socks5-udp">>
    \o <<"--udp-relay-addr", tun2socksProxyAddress \o ":" \o toString(proxyPort["Tun2socks"])>>

\* -------------------------------------------------------- SingletonProcess
\* setExitListener(newListener): b is whether a listener is passed.
SetExitListener(i, b) ==
  /\ exitListener' = [exitListener EXCEPT ![i] = b]
  /\ UNCHANGED <<isLinux, tun2socksProxyAddress, proxyPort, process, children>>
  /\ UNCHANGED rvars

\* startInternal(args) of supervisor i, called by start() with input `input`:
\* spawn() returns a new ChildProcess, which overwrites this.process, and the
\* handler is registered for its 'error' and 'exit' events.  `replaced` keeps
\* the value of this.process the assignment overwrote.
startInternal(i, args, input) ==
  /\ Len(children) < MaxSpawns
  /\ children' = Append(children,
                        [owner |-> i, input |-> input, args |-> args,
                         replaced |-> process[i], listeners |-> TRUE,
                         killed |-> FALSE, errored |-> FALSE, exited |-> FALSE,
                         notified |-> 0])
  /\ process' = [process EXCEPT ![i] = Len(children) + 1]
  /\ UNCHANGED <<isLinux, tun2socksProxyAddress, proxyPort, exitListener>>
  /\ UNCHANGED rvars

\* SsLocal.start(config)
SsLocalStart(config) == startInternal("SsLocal", SsLocalArgs(config), <<config>>)

\* Tun2socks.start()
Tun2socksStart == startInternal("Tun2socks", Tun2socksArgs, <<>>)

\* stop(): kill() on the held child, nothing without one.
SingletonProcessStop(i) ==
  /\ children' = IF process[i] # None
                   THEN [children EXCEPT ![process[i]].killed = TRUE]
                   ELSE children
  /\ UNCHANGED <<isLinux, tun2socksProxyAddress, proxyPort, process, exitListener>>
  /\ UNCHANGED rvars

\* Mutant of onExit: the listeners of the held child are left in place.
onExitKeepsListeners(cs, p) ==
  LET i == cs[p].owner
  IN  [children |-> IF exitListener[i] THEN [cs EXCEPT ![p].notified = @ + 1] ELSE cs,
       process |-> [process EXCEPT ![i] = None]]

\* The handler startInternal registered on child p, run in children cs: it
\* removes the listeners of the child this.process holds and clears
\* this.process, then invokes the exit listener if one is set.  The
\* invocation is counted on the child whose event it handles.
onExit(cs, p) ==
  LET i == cs[p].owner
      held == process[i]
      removed == IF held # None THEN [cs EXCEPT ![held].listeners = FALSE] ELSE cs
  IN  [children |-> IF exitListener[i]
                      THEN [removed EXCEPT ![p].notified = @ + 1]
                      ELSE removed,
       process |-> [process EXCEPT ![i] = None]]

\* Child p emits 'error': the launch failed, or a kill() could not be
\* delivered.  No 'error' follows an 'exit'.  With its listeners removed the
\* event reaches no handler of the supervisor.
ErrorEvent(p) ==
  /\ ~children[p].errored
  /\ ~children[p].exited
  /\ LET cs == [children EXCEPT ![p].errored = TRUE]
     IN  IF children[p].listeners
           THEN /\ children' = onExit(cs, p).children
                /\ process' = onExit(cs, p).process
           ELSE /\ children' = cs
                /\ process' = process
  /\ UNCHANGED <<isLinux, tun2socksProxyAddress, proxyPort, exitListener>>
  /\ UNCHANGED rvars

\* Child p emits 'exit': it ended, by itself or killed.
ExitEvent(p) ==
  /\ ~children[p].exited
  /\ LET cs == [children EXCEPT ![p].exited = TRUE]
     IN  IF children[p].listeners
           THEN /\ children' = onExit(cs, p).children
                /\ process' = onExit(cs, p).process
           ELSE /\ children' = cs
                /\ process' = process
  /\ UNCHANGED <<isLinux, tun2socksProxyAddress, proxyPort, exitListener>>
  /\ UNCHANGED rvars

ProcNext ==
  \/ \E i \in Supervisors : \E b \in BOOLEAN : SetExitListener(i, b)
  \/ \E config \in ServerConfig : SsLocalStart(config)
  \/ Tun2socksStart
  \/ \E i \in Supervisors : SingletonProcessStop(i)
  \/ \E p \in DOMAIN children : ErrorEvent(p)
  \/ \E p \in DOMAIN children : ExitEvent(p)

\* ---------------------------------------------------------- specifications
Spec == Init /\ [][Next]_vars

ProcSpec == ProcInit /\ [][ProcNext]_vars

\* ------------------------------------------------- vocabulary of the claims
StartCalls == {c \in DOMAIN calls : calls[c].op = "start"}
StopCalls == {c \in DOMAIN calls : calls[c].op = "stop"}

\* Transport s is open or being opened.
Live(s) == sockets[s].state \in {"connecting", "open"}

\* This step is a 'data' event of transport s; Message(s) is what it reads.
DataOn(s) ==
  /\ sockets[s].state = "open"
  /\ sockets[s].inbox # <<>>
  /\ sockets'[s].state = "open"
  /\ sockets'[s].inbox = Tail(sockets[s].inbox)

Message(s) == Head(sockets[s].inbox)

\* This step is the 'close' event of transport s.
ClosingOf(s) == sockets[s].state = "open" /\ sockets'[s].state = "closed"

\* This step is a call of start().
StartCalled ==
  /\ Len(calls') = Len(calls) + 1
  /\ calls'[Len(calls')].op = "start"

\* A start() call the service rejected with a configureRouting response.
RejectedByService(c) ==
  /\ calls[c].op = "start"
  /\ calls[c].pc = "rejected"
  /\ calls[c].err.kind \in {"UnsupportedRoutingTable", "ConfigureSystemProxyFailure"}

\* ------------------------------------------------------------------ C1
\* C1: a RoutingService never has more than one transport open or being
\* opened at the same time.
C1_OneConnection == Cardinality({s \in DOMAIN sockets : Live(s)}) <= 1

\* ------------------------------------------------------------------ C2
\* C2: a configureRouting response read while a start() call is the pending
\* Configure settles that call by its status code: 0 resolves it, 2 rejects
\* it with UnsupportedRoutingTable, 1 rejects it with
\* ConfigureSystemProxyFailure, the rejection carrying the response's
\* errorMessage; and a resolved call is never rejected afterwards.
C2_ConfigureOutcome ==
  [][/\ \A s \in DOMAIN sockets :
          ( /\ DataOn(s)
            /\ Message(s).action = CONFIGURE_ROUTING
            /\ fulfillStart # None /\ rejectStart # None
            /\ calls[fulfillStart].pc = "pending"
            /\ calls[rejectStart].pc = "pending" )
          => LET m == Message(s)
             IN /\ m.statusCode = SUCCESS
                     => calls'[fulfillStart].pc = "resolved"
                /\ m.statusCode = UNSUPPORTED_ROUTING_TABLE
                     => /\ calls'[rejectStart].pc = "rejected"
                        /\ calls'[rejectStart].err =
                             [kind |-> "UnsupportedRoutingTable", msg |-> m.errorMessage]
                /\ m.statusCode = GENERIC_FAILURE
                     => /\ calls'[rejectStart].pc = "rejected"
                        /\ calls'[rejectStart].err =
                             [kind |-> "ConfigureSystemProxyFailure", msg |-> m.errorMessage]
     /\ \A c \in StartCalls : calls[c].pc = "resolved" => calls'[c].pc = "resolved"
    ]_vars

\* A start() call rejected with UnsupportedRoutingTable carrying message e2,
\* and another resolved.
C2_Witness ==
  /\ \E c \in StartCalls :
       /\ calls[c].pc = "rejected"
       /\ calls[c].err = [kind |-> "UnsupportedRoutingTable", msg |-> "e2"]
  /\ \E c \in StartCalls : calls[c].pc = "resolved"

\* ------------------------------------------------------------------ C3
\* C3: a success configureRouting response read while a start() call is the
\* pending Configure resolves that call and leaves the transport and the
\* stored socket as they are; a resolved call stays resolved; and from then
\* on the call's transport is ended or closed, and the stored socket cleared,
\* only by a resetRouting response, a rejecting configureRouting response or
\* a transport close.
C3_SuccessKeepsConnection ==
  [][/\ \A s \in DOMAIN sockets :
          ( /\ DataOn(s)
            /\ Message(s).action = CONFIGURE_ROUTING
            /\ Message(s).statusCode = SUCCESS
            /\ fulfillStart # None /\ rejectStart # None
            /\ calls[fulfillStart].pc = "pending" )
          => /\ calls'[fulfillStart].pc = "resolved"
             /\ sockets'[s].ended = sockets[s].ended
             /\ socket' = socket
     /\ \A c \in StartCalls :
          calls[c].pc = "resolved"
          => /\ calls'[c] = calls[c]
             /\ LET s == calls[c].sock
                IN ( /\ sockets[s].state = "open" /\ ~sockets[s].ended
                     /\ (sockets'[s].ended \/ sockets'[s].state # "open") )
                   => \/ ClosingOf(s)
                      \/ /\ DataOn(s)
                         /\ \/ Message(s).action = RESET_ROUTING
                            \/ /\ Message(s).action = CONFIGURE_ROUTING
                               /\ Message(s).statusCode # SUCCESS
             /\ (socket # None /\ socket' = None)
                  => \E s \in DOMAIN sockets : ClosingOf(s)
    ]_vars

\* A resolved start() call whose transport is open, not ended by the client,
\* and is the stored socket, with a stop() call about to reuse it.
C3_Witness ==
  \E c \in StartCalls, d \in StopCalls :
    /\ calls[c].pc = "resolved"
    /\ sockets[calls[c].sock].state = "open"
    /\ ~sockets[calls[c].sock].ended
    /\ socket = calls[c].sock
    /\ calls[d].pc = "ready" /\ calls[d].sock = socket

\* ------------------------------------------------------------------ C4
\* C4: start() called while a socket is stored fails at once with the
\* 'already connected' error and changes nothing else: no transport is
\* created, nothing is written, the stored socket and the armed callbacks
\* stay as they are.
C4_AlreadyConnected ==
  [][(StartCalled /\ socket # None)
       => /\ calls'[Len(calls')].pc = "rejected"
          /\ calls'[Len(calls')].err.kind = "AlreadyConnected"
          /\ sockets' = sockets
          /\ socket' = socket
          /\ fulfillStart' = fulfillStart
          /\ rejectStart' = rejectStart
          /\ fulfillStop' = fulfillStop
          /\ \A c \in DOMAIN calls : calls'[c] = calls[c]
    ]_vars

\* A start() refused with 'already connected' while the transport of an
\* earlier start() is open and stored.
C4_Witness ==
  \E c, d \in StartCalls :
    /\ c < d
    /\ calls[c].pc \in {"pending", "resolved"}
    /\ socket = calls[c].sock
    /\ sockets[socket].state = "open" /\ ~sockets[socket].ended
    /\ calls[d].pc = "rejected" /\ calls[d].err.kind = "AlreadyConnected"

\* ------------------------------------------------------------------ C5
\* C5: once a start() call has been rejected by a configureRouting response,
\* a start() issued while the rejected call's transport is still the stored
\* one does not fail with 'already connected'.
C5_StartsCleanAfterReject ==
  [][\A c \in DOMAIN calls :
        (RejectedByService(c) /\ socket = calls[c].sock /\ StartCalled)
        => calls'[Len(calls')].err.kind # "AlreadyConnected"
    ]_vars

\* ------------------------------------------------------------------ C6
\* C6: no start() future is still pending once the transport its request was
\* written to has closed.
C6_CloseRejectsPendingStart ==
  \A c \in StartCalls :
    calls[c].pc = "pending" => sockets[calls[c].sock].state # "closed"

\* ------------------------------------------------------------------ C7
\* C7: a stop() future resolves only in a step that reads a resetRouting
\* response and in which the client ends the transport the response came on;
\* the client ends the transport on every resetRouting response, whatever
\* its status code; and the close event of a transport clears the stored
\* socket and invokes the disconnection listener, when one is set.
C7_ResetEndsConnection ==
  [][/\ \A c \in StopCalls :
          (calls[c].pc # "resolved" /\ calls'[c].pc = "resolved")
          => \E s \in DOMAIN sockets :
               /\ DataOn(s)
               /\ Message(s).action = RESET_ROUTING
               /\ sockets'[s].ended
     /\ \A s \in DOMAIN sockets :
          /\ (DataOn(s) /\ Message(s).action = RESET_ROUTING) => sockets'[s].ended
          /\ ClosingOf(s)
               => /\ socket' = None
                  /\ sockets'[s].disconnects =
                       sockets[s].disconnects + (IF disconnectionListener THEN 1 ELSE 0)
    ]_vars

\* A resolved stop() whose transport, ended by the client, has closed with
\* the disconnection listener invoked and the stored socket cleared.
C7_Witness ==
  \E c \in StopCalls :
    /\ calls[c].pc = "resolved"
    /\ sockets[calls[c].sock].state = "closed"
    /\ sockets[calls[c].sock].ended
    /\ sockets[calls[c].sock].disconnects = 1
    /\ socket = None

\* ------------------------------------------------------------------ C8
\* C8: when a resetRouting response is read on a transport, every stop()
\* call pending on a request written to that transport is resolved.
C8_EveryStopResolves ==
  [][\A s \in DOMAIN sockets :
        (DataOn(s) /\ Message(s).action = RESET_ROUTING)
        => \A c \in StopCalls :
             (calls[c].pc = "pending" /\ calls[c].sock = s)
             => calls'[c].pc = "resolved"
    ]_vars

\* ------------------------------------------------------------------ C9
\* C9: the disconnection listener is invoked at most once per transport and
\* never for one that is not closed; the close of an established transport
\* invokes it exactly once when a listener is set and clears the stored
\* socket, whoever closed it; a closed transport raises no further event.
C9_DisconnectOnce ==
  /\ [](\A s \in DOMAIN sockets :
          /\ sockets[s].disconnects <= 1
          /\ sockets[s].state # "closed" => sockets[s].disconnects = 0)
  /\ [][\A s \in DOMAIN sockets :
          /\ ClosingOf(s)
               => /\ socket' = None
                  /\ sockets'[s].disconnects = (IF disconnectionListener THEN 1 ELSE 0)
          /\ sockets[s].state = "closed" => sockets'[s] = sockets[s]
       ]_vars

\* Two closed transports, each with one notification: one closed by a
\* transport error, the other after the client's end().
C9_Witness ==
  \E s, r \in DOMAIN sockets :
    /\ sockets[s].state = "closed" /\ sockets[s].errored /\ ~sockets[s].ended
    /\ sockets[s].disconnects = 1
    /\ sockets[r].state = "closed" /\ sockets[r].ended /\ ~sockets[r].errored
    /\ sockets[r].disconnects = 1

\* ------------------------------------------------------------------ C10
\* C10 as stated: any message other than configureRouting read while a
\* start() future is pending makes the client end the transport and settles
\* no start() future.
C10_UnexpectedActionEnds ==
  [][\A s \in DOMAIN sockets :
        ( /\ DataOn(s)
          /\ Message(s).action # CONFIGURE_ROUTING
          /\ \E c \in StartCalls : calls[c].pc = "pending" /\ calls[c].sock = s )
        => /\ sockets'[s].ended
           /\ \A c \in StartCalls : calls'[c] = calls[c]
    ]_vars

\* C10 amended: read while a start() future is pending, a resetRouting
\* response makes the client end the transport and a statusChanged message
\* leaves the transport as it is; neither settles a start() future.
C10_ResetEndsStatusChangedDoesNot ==
  [][\A s \in DOMAIN sockets :
        ( /\ DataOn(s)
          /\ Message(s).action # CONFIGURE_ROUTING
          /\ \E c \in StartCalls : calls[c].pc = "pending" /\ calls[c].sock = s )
        => /\ Message(s).action = RESET_ROUTING => sockets'[s].ended
           /\ Message(s).action = STATUS_CHANGED
                => sockets'[s].ended = sockets[s].ended
           /\ \A c \in StartCalls : calls'[c] = calls[c]
    ]_vars

\* A start() still pending on a transport the client has ended, no stop()
\* having been called: an unsolicited resetRouting was read.
C10_Witness ==
  /\ StopCalls = {}
  /\ \E c \in StartCalls :
       /\ calls[c].pc = "pending"
       /\ sockets[calls[c].sock].state = "open"
       /\ sockets[calls[c].sock].ended

\* ------------------------------------------------------------------ C11
\* C11: reading a statusChanged message changes nothing but the unread
\* messages: the transport is not ended, no call is settled, the stored
\* socket and the three callbacks stay as they are.
C11_StatusChangedIgnored ==
  [][\A s \in DOMAIN sockets :
        (DataOn(s) /\ Message(s).action = STATUS_CHANGED)
        => /\ sockets' = [sockets EXCEPT ![s].inbox = Tail(@)]
           /\ calls' = calls
           /\ socket' = socket
           /\ fulfillStart' = fulfillStart
           /\ rejectStart' = rejectStart
           /\ fulfillStop' = fulfillStop
    ]_vars

\* A statusChanged message is the next one read on an open transport on
\* which a start() and a stop() are both pending.
C11_Witness ==
  \E s \in DOMAIN sockets, c \in StartCalls, d \in StopCalls :
    /\ sockets[s].state = "open" /\ ~sockets[s].ended
    /\ sockets[s].inbox # <<>> /\ Message(s).action = STATUS_CHANGED
    /\ calls[c].pc = "pending" /\ calls[c].sock = s
    /\ calls[d].pc = "pending" /\ calls[d].sock = s
    /\ MicrotasksDrained

\* ------------------------------------------------------------------ C12
\* C12: a transport that failed to connect has nothing written to it, was
\* never stored and never notified the disconnection listener; the step in
\* which it fails rejects the call that requested it with
\* SystemConfigurationException and leaves the stored socket and the
\* callbacks as they are.
C12_ConnectFailure ==
  /\ [](\A s \in DOMAIN sockets :
          sockets[s].state = "failed"
          => /\ sockets[s].written = <<>>
             /\ sockets[s].disconnects = 0
             /\ socket # s)
  /\ [][\A s \in DOMAIN sockets :
          (sockets[s].state = "connecting" /\ sockets'[s].state = "failed")
          => /\ socket' = socket
             /\ fulfillStart' = fulfillStart
             /\ rejectStart' = rejectStart
             /\ fulfillStop' = fulfillStop
             /\ \A c \in DOMAIN calls :
                  IF calls[c].pc = "connecting" /\ calls[c].sock = s
                    THEN /\ calls'[c].pc = "rejected"
                         /\ calls'[c].err.kind = "SystemConfigurationException"
                    ELSE calls'[c] = calls[c]
       ]_vars

\* A start() and a stop() each rejected with SystemConfigurationException by
\* a failed connect, no socket stored.
C12_Witness ==
  /\ socket = None
  /\ \E c \in StartCalls, d \in StopCalls :
       /\ calls[c].pc = "rejected"
       /\ calls[c].err.kind = "SystemConfigurationException"
       /\ sockets[calls[c].sock].state = "failed"
       /\ calls[d].pc = "rejected"
       /\ calls[d].err.kind = "SystemConfigurationException"
       /\ sockets[calls[d].sock].state = "failed"
       /\ calls[c].sock # calls[d].sock

\* ------------------------------------------------------------------ C13
\* The resetRouting requests written to transport s.
ResetsWritten(s) ==
  {i \in DOMAIN sockets[s].written : sockets[s].written[i].action = RESET_ROUTING}

\* This step is a call of stop().
StopCalled ==
  /\ Len(calls') = Len(calls) + 1
  /\ calls'[Len(calls')].op = "stop"

\* C13: stop() called with no stored socket creates exactly one transport
\* and waits for it; called with a stored socket it creates none and takes
\* the stored one. Each stop() writes exactly one resetRouting request, on
\* the transport it took, and the resetRouting response makes the client end
\* that transport.
C13_StopConnection ==
  /\ [](\A s \in DOMAIN sockets :
          Cardinality(ResetsWritten(s)) =
            Cardinality({c \in StopCalls : /\ calls[c].sock = s
                                          /\ calls[c].pc \in {"pending", "resolved"}}))
  /\ [][/\ (StopCalled /\ socket = None)
             => /\ Len(sockets') = Len(sockets) + 1
                /\ \A s \in DOMAIN sockets : sockets'[s] = sockets[s]
                /\ sockets'[Len(sockets')].state = "connecting"
                /\ calls'[Len(calls')].sock = Len(sockets')
        /\ (StopCalled /\ socket # None)
             => /\ sockets' = sockets
                /\ calls'[Len(calls')].sock = socket
        /\ \A c \in StopCalls :
             (calls[c].pc = "ready" /\ calls'[c].pc # "ready")
             => sockets' = [sockets EXCEPT ![calls[c].sock].written =
                              Append(@, [action |-> RESET_ROUTING, proxyIp |-> "none"])]
        /\ \A s \in DOMAIN sockets :
             (DataOn(s) /\ Message(s).action = RESET_ROUTING) => sockets'[s].ended
       ]_vars

\* A stop() that opened its own transport, wrote one request, was resolved
\* and saw the transport closed; and a stop() that took the open transport of
\* a start() and wrote its request after the start()'s.
C13_Witness ==
  \E c \in StartCalls, d \in StopCalls, e \in StopCalls :
    /\ calls[e].pc = "resolved"
    /\ sockets[calls[e].sock].state = "closed"
    /\ sockets[calls[e].sock].written = <<[action |-> RESET_ROUTING, proxyIp |-> "none"]>>
    /\ calls[d].sock = calls[c].sock
    /\ calls[d].sock # calls[e].sock
    /\ calls[d].pc = "pending"
    /\ Len(sockets[calls[d].sock].written) = 2
    /\ sockets[calls[d].sock].written[2].action = RESET_ROUTING

\* ------------------------------------------- vocabulary of C14, C15, C16, C20
\* The children supervisor i spawned.
OwnedBy(i) == {p \in DOMAIN children : children[p].owner = i}

\* Child p has emitted an 'error' or an 'exit' event.
Reported(p) == children[p].errored \/ children[p].exited

\* No start() of supervisor i was issued while it held a child.
NoDoubleStart(i) == \A q \in OwnedBy(i) : children[q].replaced = None

\* This step is the first event child p emits.
FirstEvent(p) ==
  /\ ~Reported(p)
  /\ children'[p].errored \/ children'[p].exited

\* This step is the 'exit' event of child p, after its 'error' event.
SecondEvent(p) ==
  /\ children[p].errored
  /\ ~children[p].exited
  /\ children'[p].exited

\* The text of an optional string: nothing when it is missing.
Text(x) == IF x = <<>> THEN "" ELSE x[1]

\* The decimal text of the ports in use, written out.
PortText == (9 :> "9") @@ (1081 :> "1081") @@ (65336 :> "65336")

\* The text <address>:<port> of the SOCKS endpoints in use, written out.
EndpointText ==
  [a \in SocksAddresses |-> (9 :> "127.0.0.1:9") @@ (1081 :> "127.0.0.1:1081")]

\* Argument `flag` occurs in args.
Has(args, flag) == \E k \in 1..Len(args) : args[k] = flag

\* The values that follow an occurrence of `flag` in args.
ValuesOf(args, flag) == {args[k + 1] : k \in {j \in 1..(Len(args) - 1) : args[j] = flag}}

\* ------------------------------------------------------------------ C14
\* C14: for a supervisor that was never started while it held a child, the
\* handler runs for the first 'error' or 'exit' event of a child and for no
\* later one: the first event clears this.process and invokes the exit
\* listener, if one is set, exactly once; a second event of the same child
\* invokes nothing and leaves this.process alone.  So no child is notified
\* more than once, stop() before the exit included, and a child that has
\* reported is not held and has no listeners.
C14_ExitNotifiedOnce ==
  /\ [](\A p \in DOMAIN children :
          NoDoubleStart(children[p].owner)
          => /\ children[p].notified <= 1
             /\ Reported(p)
                => /\ process[children[p].owner] # p
                   /\ ~children[p].listeners
             /\ ~Reported(p)
                => /\ process[children[p].owner] = p
                   /\ children[p].listeners)
  /\ [][\A p \in DOMAIN children :
          NoDoubleStart(children[p].owner)
          => /\ FirstEvent(p)
                => /\ process'[children[p].owner] = None
                   /\ children'[p].notified =
                        children[p].notified
                          + (IF exitListener[children[p].owner] THEN 1 ELSE 0)
             /\ SecondEvent(p)
                => /\ children'[p].notified = children[p].notified
                   /\ process' = process
       ]_vars

\* One supervisor, two starts in turn, the listener set.  The first child
\* failed to launch ('error'), was notified once and its later 'exit' added
\* nothing; the second was started after it, stopped, exited and was notified
\* once.
C14_Witness ==
  /\ Len(children) = 2
  /\ children[1].owner = children[2].owner
  /\ NoDoubleStart(children[1].owner)
  /\ children[1].errored /\ children[1].exited /\ children[1].notified = 1
  /\ children[2].killed /\ children[2].exited /\ ~children[2].errored
  /\ children[2].notified = 1
  /\ process[children[2].owner] = None

\* ------------------------------------------------------------------ C15
\* C15: the arguments SsLocal.start(config) spawns with are -l <proxyPort>,
\* -s <host>, -p <port>, -k <password>, -m <method>, -t 5, -u, in this order,
\* the ports in decimal and a missing host, password or method as the empty
\* string; for host 203.0.113.5, port 65336, password pw, method aes-128-cfb
\* and local port 1081 they are the ones written out below.
C15_SsLocalArguments ==
  \A p \in OwnedBy("SsLocal") :
    LET config == children[p].input[1]
    IN  /\ children[p].args =
             <<"-l", PortText[proxyPort["SsLocal"]],
               "-s", Text(config.host),
               "-p", PortText[config.port],
               "-k", Text(config.password),
               "-m", Text(config.method),
               "-t", "5",
               "-u">>
        /\ ( /\ proxyPort["SsLocal"] = 1081
             /\ config = [host |-> <<"203.0.113.5">>, port |-> 65336,
                          password |-> <<"pw">>, method |-> <<"aes-128-cfb">>] )
           => children[p].args =
                <<"-l", "1081", "-s", "203.0.113.5", "-p", "65336", "-k", "pw",
                  "-m", "aes-128-cfb", "-t", "5", "-u">>

\* SsLocal on local port 1081 was started with the config of the example and
\* with a config that has no host, no password and no method.
C15_Witness ==
  /\ proxyPort["SsLocal"] = 1081
  /\ \E p \in OwnedBy("SsLocal") :
       children[p].input[1] = [host |-> <<"203.0.113.5">>, port |-> 65336,
                               password |-> <<"pw">>, method |-> <<"aes-128-cfb">>]
  /\ \E p \in OwnedBy("SsLocal") :
       children[p].input[1] = [host |-> <<>>, port |-> 65336,
                               password |-> <<>>, method |-> <<>>]

\* ------------------------------------------------------------------ C16
\* C16: the arguments Tun2socks.start() spawns with give --netif-ipaddr the
\* value 10.0.85.1, --netif-netmask 255.255.255.0, --loglevel error, give
\* --socks-server-addr and --udp-relay-addr the same <proxyAddress>:<proxyPort>,
\* and hold --transparent-dns and --socks5-udp.
C16_Tun2socksArguments ==
  \A p \in OwnedBy("Tun2socks") :
    LET args == children[p].args
        endpoint == EndpointText[tun2socksProxyAddress][proxyPort["Tun2socks"]]
    IN  /\ ValuesOf(args, "--netif-ipaddr") = {"10.0.85.1"}
        /\ ValuesOf(args, "--netif-netmask") = {"255.255.255.0"}
        /\ ValuesOf(args, "--socks-server-addr") = {endpoint}
        /\ ValuesOf(args, "--udp-relay-addr") = {endpoint}
        /\ ValuesOf(args, "--loglevel") = {"error"}
        /\ Has(args, "--transparent-dns")
        /\ Has(args, "--socks5-udp")

\* Tun2socks pointed at 127.0.0.1:1081 was started, on a platform that names
\* the device and on one that describes it in full.
C16_Witness ==
  /\ tun2socksProxyAddress = "127.0.0.1"
  /\ proxyPort["Tun2socks"] = 1081
  /\ ~isLinux
  /\ \E p \in OwnedBy("Tun2socks") :
       /\ Len(children[p].args) = 14
       /\ ValuesOf(children[p].args, "--tundev") =
            {"tap0901:outline-tap0:10.0.85.2:10.0.85.0:255.255.255.0"}

\* ------------------------------------------------------------------ C17
\* C17: a message read on a transport never settles a call whose request was
\* written to an earlier transport that has already closed.
C17_NoStaleSettle ==
  [][\A s \in DOMAIN sockets :
        DataOn(s)
        => \A c \in DOMAIN calls :
             ( /\ calls[c].pc = "pending"
               /\ calls[c].sock < s
               /\ sockets[calls[c].sock].state = "closed" )
             => calls'[c] = calls[c]
    ]_vars

\* ------------------------------------------------------------------ C18
\* C18: no request is written to a transport on which the client has called
\* end().
C18_NoWriteAfterEnd ==
  [][\A s \in DOMAIN sockets :
        Len(sockets'[s].written) > Len(sockets[s].written) => ~sockets[s].ended
    ]_vars

\* ------------------------------------------------------------------ C19
\* C19: a configureRouting response read on a transport on which no start()
\* is pending makes the client end the transport and settles no call.
C19_UnexpectedConfigure ==
  [][\A s \in DOMAIN sockets :
        ( /\ DataOn(s)
          /\ Message(s).action = CONFIGURE_ROUTING
          /\ ~\E c \in StartCalls : calls[c].pc = "pending" /\ calls[c].sock = s )
        => /\ sockets'[s].ended
           /\ calls' = calls
    ]_vars

\* ------------------------------------------------------------------ C20
\* C20: every child a supervisor spawned is the one its this.process holds,
\* or has reported ('exit', or the 'error' of a failed launch).
C20_EveryChildHeldOrReported ==
  \A p \in DOMAIN children : process[children[p].owner] = p \/ Reported(p)

====
